---------------------------- MODULE Spec2Model ----------------------------
(***************************************************************************)
(* Model of the property-chatbot repository: the sync pipeline of          *)
(* fetch_to_postgres.py (paginated fetch, upsert, media fan-out, cities    *)
(* refresh) over the schema of setup_postgres_db.py, and the search path   *)
(* of chatbot_postgres.py behind the endpoints of main.py.                 *)
(*                                                                         *)
(* Python values are tagged tuples: <<"None">>, <<"int", n>>,              *)
(* <<"str", s>> with s a sequence of one-character strings, and            *)
(* <<"bool", b>>.  SQL NULL is the stored form of <<"None">>.              *)
(***************************************************************************)
EXTENDS Integers, Sequences, FiniteSets, TLC

(***************************************************************************)
(* Bounds of the model.                                                    *)
(***************************************************************************)
\* pages a run may request: fetch_all's limit is MaxPages * PageSize
MaxPages == 2
\* rows the property_media table may hold
MaxMediaRows == 2
\* records of a batch given to insert_properties directly
MaxBatch == 2
\* predicates a search request gives
MaxPredicates == 2

(***************************************************************************)
(* Program constants.                                                      *)
(***************************************************************************)
PageSize == 100
KeyWidth == 50
CityWidth == 100
SearchLimit == 10
MediaLimit == 5

(***************************************************************************)
(* Python values.                                                          *)
(***************************************************************************)
None == <<"None">>
I(n) == <<"int", n>>
S(s) == <<"str", s>>

IsNone(v) == v[1] = "None"
IsInt(v) == v[1] = "int"
IsStr(v) == v[1] = "str"

\* Python truthiness, as used by `if params.get(..)` and `if p.get(..)`
Truthy(v) ==
    CASE IsNone(v) -> FALSE
      [] IsInt(v) -> v[2] # 0
      [] IsStr(v) -> v[2] # <<>>
      [] OTHER -> TRUE

\* dict.get(name): the value, or None when the key is missing
Get(d, name) == IF name \in DOMAIN d THEN d[name] ELSE None

Min(a, b) == IF a < b THEN a ELSE b

(***************************************************************************)
(* Strings used by the model.                                              *)
(***************************************************************************)
A1 == <<"A", "1">>
B2 == <<"B", "2">>
\* a key one character wider than the listing_key column
LongKey(c) == [i \in 1..(KeyWidth + 1) |-> IF i = KeyWidth + 1 THEN c ELSE "K"]
Toronto == <<"T", "o", "r", "o", "n", "t", "o">>
Milton == <<"M", "i", "l", "t", "o", "n">>
NotANumber == <<"N", "/", "A">>

\* str(val) of a Python int: its decimal digits
DigitChar(d) == <<"0", "1", "2", "3", "4", "5", "6", "7", "8", "9">>[d + 1]
RECURSIVE Digits(_)
Digits(n) == IF n < 10 THEN <<DigitChar(n)>> ELSE Append(Digits(n \div 10), DigitChar(n % 10))
Str(val) ==
    CASE IsStr(val) -> val[2]
      [] IsInt(val) -> IF val[2] < 0 THEN <<"-">> \o Digits(-val[2]) ELSE Digits(val[2])
      [] OTHER -> <<"?">>

\* s[:max_len]
Prefix(s, n) == SubSeq(s, 1, Min(Len(s), n))

\* safe_str(val, max_len); max_len = 0 stands for max_len=None (both falsy)
safe_str(val, max_len) ==
    IF IsNone(val) THEN None
    ELSE IF max_len # 0 THEN S(Prefix(Str(val), max_len)) ELSE S(Str(val))

(***************************************************************************)
(* The remote catalog's listing records (the JSON objects of "value").     *)
(* A field that is absent from a record is absent from its domain.         *)
(***************************************************************************)
RawA1Full ==
    [ListingKey |-> S(A1), City |-> S(Toronto), ListPrice |-> I(900000),
     BedroomsTotal |-> I(3)]
RawA1Price == [ListingKey |-> S(A1), ListPrice |-> I(950000)]
RawA1Old ==
    [ListingKey |-> S(A1), City |-> S(Toronto), ListPrice |-> I(0),
     BedroomsTotal |-> I(0), BathroomsTotalInteger |-> I(0),
     ModificationTimestamp |-> I(1)]
RawB2 ==
    [ListingKey |-> S(B2), City |-> S(Milton), BedroomsTotal |-> I(3),
     BathroomsTotalInteger |-> I(2), ModificationTimestamp |-> I(2)]
\* A1 as the remote holds it after a later modification
RawA1New ==
    [ListingKey |-> S(A1), ListPrice |-> I(975000), ModificationTimestamp |-> I(2)]
RawNoKey == [City |-> S(Toronto), ListPrice |-> I(900000)]
RawBadPrice == [ListingKey |-> S(B2), ListPrice |-> S(NotANumber)]
RawLongX == [ListingKey |-> S(LongKey("x")), ListPrice |-> I(900000)]
RawLongY == [ListingKey |-> S(LongKey("y")), ListPrice |-> I(950000)]

RawListings ==
    {RawA1Full, RawA1Price, RawA1Old, RawA1New, RawB2, RawNoKey, RawBadPrice,
     RawLongX, RawLongY}

\* the non-empty pages the remote answers with in a sync run
Pages ==
    {<<RawA1Full>>, <<RawA1Price>>, <<RawA1Old, RawB2>>, <<RawA1Price, RawA1Full>>,
     <<RawA1Full, RawNoKey>>, <<RawB2, RawBadPrice>>, <<RawNoKey>>}

\* the batches insert_properties is given when it is called on its own:
\* every sequence of 1..MaxBatch records
Batches == UNION {[1..n -> RawListings] : n \in 1..MaxBatch}

(***************************************************************************)
(* The properties table: a function from listing_key (the primary key) to  *)
(* the row's other columns.                                                *)
(***************************************************************************)
EmptyTable == <<>>

\* one tuple of property_data (insert_properties' loop body)
PropertyTuple(p) ==
    [listing_key |-> safe_str(Get(p, "ListingKey"), KeyWidth),
     city |-> safe_str(Get(p, "City"), CityWidth),
     list_price |-> Get(p, "ListPrice"),
     bedrooms |-> Get(p, "BedroomsTotal"),
     bathrooms |-> Get(p, "BathroomsTotalInteger"),
     last_updated |-> Get(p, "ModificationTimestamp")]

PropertyData(properties) == [i \in 1..Len(properties) |-> PropertyTuple(properties[i])]

\* text the server accepts for a numeric column
IsDigits(s) == s # <<>> /\ \A i \in 1..Len(s) : \E d \in 0..9 : s[i] = DigitChar(d)
RECURSIVE ParseDigits(_)
ParseDigits(s) ==
    IF s = <<>> THEN 0
    ELSE 10 * ParseDigits(SubSeq(s, 1, Len(s) - 1))
         + (CHOOSE d \in 0..9 : s[Len(s)] = DigitChar(d))

\* the value a numeric column stores for a parameter (None for NULL)
NumericValue(v) == IF IsStr(v) THEN I(ParseDigits(v[2])) ELSE v
\* DECIMAL(12,2) and INTEGER columns: NULL, a number, or text that reads as
\* one.  The model's numbers are 32-bit, so every one of them fits either type.
DecimalOk(v) == IsNone(v) \/ IsInt(v) \/ (IsStr(v) /\ IsDigits(v[2]) /\ Len(v[2]) <= 9)
IntegerOk(v) == IsNone(v) \/ IsInt(v) \/ (IsStr(v) /\ IsDigits(v[2]) /\ Len(v[2]) <= 9)

\* whether the server accepts the tuple as a row of properties
PropertyRowOk(t) ==
    /\ ~IsNone(t.listing_key)
    /\ DecimalOk(t.list_price)
    /\ IntegerOk(t.bedrooms)
    /\ IntegerOk(t.bathrooms)

\* the columns ON CONFLICT DO UPDATE SET overwrites (all but the key)
UpsertedColumns(t) ==
    [city |-> t.city,
     list_price |-> NumericValue(t.list_price),
     bedrooms |-> NumericValue(t.bedrooms),
     bathrooms |-> NumericValue(t.bathrooms),
     last_updated |-> t.last_updated]

Put(table, k, row) == [x \in DOMAIN table \cup {k} |-> IF x = k THEN row ELSE table[x]]

\* INSERT .. ON CONFLICT (listing_key) DO UPDATE SET ..: one statement
UpsertInsertOnly(table, t) ==
    IF t.listing_key[2] \in DOMAIN table THEN table
    ELSE Put(table, t.listing_key[2], UpsertedColumns(t))
\* .. SET col = COALESCE(EXCLUDED.col, col): a NULL keeps the stored value
UpsertCoalesce(table, t) ==
    LET k == t.listing_key[2]
        new == UpsertedColumns(t)
    IN  Put(table, k,
            IF k \in DOMAIN table
            THEN [c \in DOMAIN new |-> IF IsNone(new[c]) THEN table[k][c] ELSE new[c]]
            ELSE new)
\* .. DO UPDATE SET .. WHERE EXCLUDED.last_updated >= properties.last_updated:
\* a record older than the stored row is skipped
UpsertNewestWins(table, t) ==
    LET k == t.listing_key[2]
    IN  IF /\ k \in DOMAIN table
           /\ ~IsNone(table[k].last_updated)
           /\ ~IsNone(t.last_updated)
           /\ t.last_updated[2] < table[k].last_updated[2]
        THEN table
        ELSE Put(table, k, UpsertedColumns(t))
Upsert(table, t) == Put(table, t.listing_key[2], UpsertedColumns(t))

\* execute_batch: the statements run in order in the open transaction; the
\* first one the server rejects raises, leaving the earlier ones pending
RECURSIVE execute_batch(_, _)
execute_batch(table, data) ==
    IF data = <<>> THEN [ok |-> TRUE, table |-> table]
    ELSE IF ~PropertyRowOk(Head(data)) THEN [ok |-> FALSE, table |-> table]
    ELSE execute_batch(Upsert(table, Head(data)), Tail(data))

\* conn.commit(): the transaction's rows become the table
commit(committed, pending) == pending
\* conn.rollback(): the transaction's rows are dropped
rollbackKeepsPending(committed, pending) == pending
rollback(committed, pending) == committed

\* insert_properties: [ok, table]; storageFails is a failure of the store
\* itself (execute_batch or commit raising for a reason other than the data)
\* that leaves the connection able to take the rollback
insert_properties(table, properties, storageFails) ==
    LET property_data == PropertyData(properties)
        r == IF property_data # <<>> THEN execute_batch(table, property_data)
             ELSE [ok |-> TRUE, table |-> table]
    IN  IF r.ok /\ ~storageFails
        THEN [ok |-> TRUE, table |-> commit(table, r.table)]
        ELSE [ok |-> FALSE, table |-> rollback(table, r.table)]

(***************************************************************************)
(* The property_media table: the rows in id (SERIAL) order.                *)
(***************************************************************************)
Url1 == <<"u", "1">>
Url2 == <<"u", "2">>
PyTrue == <<"bool", TRUE>>
MediaUrlWidth == 500

\* the media records the remote holds for a listing key
MediaItemPrimary(key) ==
    [ResourceRecordKey |-> key, MediaURL |-> S(Url1), Order |-> I(1),
     PreferredPhotoYN |-> PyTrue]
MediaItemPlain(key) == [ResourceRecordKey |-> key, MediaURL |-> S(Url2)]
PyFalse == <<"bool", FALSE>>
MediaItemOrdered(key, order, preferred) ==
    [ResourceRecordKey |-> key, MediaURL |-> S(Url2), Order |-> I(order),
     PreferredPhotoYN |-> preferred]
\* one record more than the media query's LIMIT, in an order that is not
\* the query's: two preferred photos, two records with the same Order, one
\* record without Order
MediaItemsMany(key) ==
    <<MediaItemPlain(key), MediaItemOrdered(key, 3, PyFalse),
      MediaItemOrdered(key, 2, PyTrue), MediaItemPrimary(key),
      MediaItemOrdered(key, 1, PyFalse), MediaItemOrdered(key, 3, PyFalse)>>

\* what a media request for `key` may end in: an exception of the HTTP
\* client, a non-200 status, or a 200 with the records of "value"
MediaReplies(key) ==
    {[kind |-> "transport", value |-> <<>>], [kind |-> "status", value |-> <<>>],
     [kind |-> "ok", value |-> <<>>],
     [kind |-> "ok", value |-> <<MediaItemPrimary(key)>>],
     [kind |-> "ok", value |-> <<MediaItemPlain(key), MediaItemPrimary(key)>>]}

\* one tuple of media_records
MediaTuple(item) ==
    [listing_key |-> safe_str(Get(item, "ResourceRecordKey"), KeyWidth),
     media_url |-> Get(item, "MediaURL"),
     display_order |-> Get(item, "Order"),
     is_primary |-> (Get(item, "PreferredPhotoYN") = PyTrue)]

\* the body of the loop over listing_keys: the records one request adds
MediaRecordsOf(reply) ==
    IF reply.kind = "ok"
    THEN [i \in 1..Len(reply.value) |-> MediaTuple(reply.value[i])]
    ELSE <<>>

RECURSIVE MediaRecords(_)
MediaRecords(replies) ==
    IF replies = <<>> THEN <<>>
    ELSE MediaRecordsOf(Head(replies)) \o MediaRecords(Tail(replies))

\* whether the server accepts the tuple as a row of property_media:
\* listing_key REFERENCES properties(listing_key), media_url VARCHAR(500)
MediaRowOk(table, t) ==
    /\ IsNone(t.listing_key) \/ t.listing_key[2] \in DOMAIN table
    /\ IsNone(t.media_url) \/ (IsStr(t.media_url) /\ Len(t.media_url[2]) <= MediaUrlWidth)
    /\ IntegerOk(t.display_order)

MediaRow(t) ==
    [listing_key |-> t.listing_key, media_url |-> t.media_url,
     display_order |-> NumericValue(t.display_order), is_primary |-> t.is_primary]

\* ON CONFLICT DO NOTHING over a unique (listing_key, media_url): a record
\* whose row is stored already is skipped
RECURSIVE AppendNew(_, _)
AppendNew(media, rows) ==
    IF rows = <<>> THEN media
    ELSE AppendNew(IF \E i \in 1..Len(media) : media[i] = Head(rows)
                   THEN media ELSE Append(media, Head(rows)), Tail(rows))
insert_mediaDeduplicates(table, media, media_records, storageFails) ==
    LET pending == AppendNew(media, [i \in 1..Len(media_records) |-> MediaRow(media_records[i])])
        accepted == \A i \in 1..Len(media_records) : MediaRowOk(table, media_records[i])
    IN  IF accepted /\ ~storageFails
        THEN [ok |-> TRUE, media |-> commit(media, pending)]
        ELSE [ok |-> FALSE, media |-> rollback(media, pending)]
\* insert_media: [ok, media].  ON CONFLICT DO NOTHING never skips a row: the
\* table's only unique column is the SERIAL id, which the insert does not give
insert_media(table, media, media_records, storageFails) ==
    LET pending == media \o [i \in 1..Len(media_records) |-> MediaRow(media_records[i])]
        accepted == \A i \in 1..Len(media_records) : MediaRowOk(table, media_records[i])
    IN  IF accepted /\ ~storageFails
        THEN [ok |-> TRUE, media |-> commit(media, pending)]
        ELSE [ok |-> FALSE, media |-> rollback(media, pending)]

\* fetch_media_for_properties: [inserted, ok, media]
fetch_media_for_properties(table, media, replies, storageFails) ==
    LET media_records == MediaRecords(replies)
    IN  IF media_records # <<>>
        THEN LET r == insert_media(table, media, media_records, storageFails)
             IN  [inserted |-> TRUE, ok |-> r.ok, media |-> r.media]
        ELSE [inserted |-> FALSE, ok |-> TRUE, media |-> media]

(***************************************************************************)
(* The remote's answers to a listing request.                              *)
(***************************************************************************)
ListingReplies ==
    {[kind |-> "transport", value |-> <<>>], [kind |-> "status", value |-> <<>>],
     [kind |-> "ok", value |-> <<>>]}
    \cup {[kind |-> "ok", value |-> page] : page \in Pages}

\* fetch_properties: httpx.get is not guarded, so a transport failure raises;
\* a status other than 200 gives []
fetch_properties(reply) ==
    CASE reply.kind = "transport" -> [raised |-> TRUE, value |-> <<>>]
      [] reply.kind = "status" -> [raised |-> FALSE, value |-> <<>>]
      [] OTHER -> [raised |-> FALSE, value |-> reply.value]

\* fetch_all's limit as main passes it, scaled to MaxPages pages
Limit == MaxPages * PageSize

\* keys = [p.get("ListingKey") for p in props if p.get("ListingKey")]
RECURSIVE ListingKeys(_)
ListingKeys(page) ==
    IF page = <<>> THEN <<>>
    ELSE (IF Truthy(Get(Head(page), "ListingKey"))
          THEN <<Get(Head(page), "ListingKey")>> ELSE <<>>) \o ListingKeys(Tail(page))

\* where `for skip in range(0, limit, 100)` goes after the body at `offset`
NextIteration(offset) ==
    IF offset + PageSize < Limit
    THEN [pc |-> "fetch", skip |-> offset + PageSize]
    ELSE [pc |-> "refresh", skip |-> offset]

\* `if not props: break`
AfterFetchNoBreak(page, offset) ==
    IF page = <<>> THEN NextIteration(offset) ELSE [pc |-> "insert", skip |-> offset]
AfterFetch(page, offset) ==
    IF page = <<>> THEN [pc |-> "refresh", skip |-> offset]
    ELSE [pc |-> "insert", skip |-> offset]

\* `if fetch_media and keys:` with fetch_media=True, after insert_properties
AfterInsertAborts(ok, page, offset) ==
    IF ~ok THEN [pc |-> "crashed", skip |-> offset]
    ELSE IF ListingKeys(page) # <<>> THEN [pc |-> "media", skip |-> offset]
    ELSE NextIteration(offset)
AfterInsert(ok, page, offset) ==
    IF ListingKeys(page) # <<>> THEN [pc |-> "media", skip |-> offset]
    ELSE NextIteration(offset)

(***************************************************************************)
(* The cities table.  create_tables of setup_postgres_db.py creates        *)
(* properties and property_media only, so whether cities exists, and what  *)
(* it holds, is the database's state before the first run.                 *)
(***************************************************************************)
\* SELECT DISTINCT city FROM properties WHERE city IS NOT NULL
DistinctCities(table) ==
    {table[k].city[2] : k \in {x \in DOMAIN table : ~IsNone(table[x].city)}}

\* the rows of cities (name -> number of rows with that name)
CityRows(names) == [n \in names |-> 1]

(***************************************************************************)
(* The search of chatbot_postgres.py.                                      *)
(***************************************************************************)
UpperCase ==
    <<"A", "B", "C", "D", "E", "F", "G", "H", "I", "J", "K", "L", "M",
      "N", "O", "P", "Q", "R", "S", "T", "U", "V", "W", "X", "Y", "Z">>
LowerCase ==
    <<"a", "b", "c", "d", "e", "f", "g", "h", "i", "j", "k", "l", "m",
      "n", "o", "p", "q", "r", "s", "t", "u", "v", "w", "x", "y", "z">>
LowerChar(c) ==
    IF \E i \in 1..26 : UpperCase[i] = c
    THEN LowerCase[CHOOSE i \in 1..26 : UpperCase[i] = c]
    ELSE c
\* SQL LOWER(s)
Lower(s) == [i \in 1..Len(s) |-> LowerChar(s[i])]

\* SQL `s LIKE pattern`: % matches any run of characters, _ any one
RECURSIVE Like(_, _)
Like(s, pattern) ==
    IF pattern = <<>> THEN s = <<>>
    ELSE IF Head(pattern) = "%"
         THEN Like(s, Tail(pattern)) \/ (s # <<>> /\ Like(Tail(s), pattern))
    ELSE /\ s # <<>>
         /\ Head(pattern) = "_" \/ Head(pattern) = Head(s)
         /\ Like(Tail(s), Tail(pattern))

\* the predicate names search_properties reads
Supplied(params, name) == Truthy(Get(params, name))

\* a parameter the server can compare with a numeric column
ComparableOk(v) == IsInt(v) \/ (IsStr(v) /\ IsDigits(v[2]))
ParamNumber(v) == NumericValue(v)[2]

\* cursor.execute(query, values) raises: a numeric condition is built from
\* a value the server cannot read as a number
QueryFails(params) ==
    \E name \in {"min_price", "max_price", "bedrooms", "bathrooms"} :
        Supplied(params, name) /\ ~ComparableOk(Get(params, name))

\* the WHERE clause: the conditions appended, joined by AND ("1=1" if none).
\* A comparison with a NULL column is not true, so the row is left out.
CityCondition(row, params) ==
    Supplied(params, "city") =>
        /\ ~IsNone(row.city)
        /\ Like(Lower(row.city[2]), Lower(<<"%">> \o Str(Get(params, "city")) \o <<"%">>))
MinPriceCondition(row, params) ==
    Supplied(params, "min_price") =>
        ~IsNone(row.list_price) /\ row.list_price[2] >= ParamNumber(Get(params, "min_price"))
MaxPriceCondition(row, params) ==
    Supplied(params, "max_price") =>
        ~IsNone(row.list_price) /\ row.list_price[2] <= ParamNumber(Get(params, "max_price"))
BedroomsCondition(row, params) ==
    Supplied(params, "bedrooms") =>
        ~IsNone(row.bedrooms) /\ row.bedrooms[2] = ParamNumber(Get(params, "bedrooms"))
BathroomsCondition(row, params) ==
    Supplied(params, "bathrooms") =>
        ~IsNone(row.bathrooms) /\ row.bathrooms[2] = ParamNumber(Get(params, "bathrooms"))

WhereClause(row, params) ==
    /\ CityCondition(row, params)
    /\ MinPriceCondition(row, params)
    /\ MaxPriceCondition(row, params)
    /\ BedroomsCondition(row, params)
    /\ BathroomsCondition(row, params)

MatchingKeys(table, params) == {k \in DOMAIN table : WhereClause(table[k], params)}

\* ORDER BY list_price DESC: NULLs first, then falling prices; the order of
\* rows with equal prices is the server's choice
PriceNotBelow(table, a, b) ==
    \/ IsNone(table[a].list_price)
    \/ ~IsNone(table[b].list_price) /\ table[a].list_price[2] >= table[b].list_price[2]

RECURSIVE PriceOrders(_, _)
PriceOrders(table, keys) ==
    IF keys = {} THEN {<<>>}
    ELSE UNION {{<<k>> \o rest : rest \in PriceOrders(table, keys \ {k})} :
                k \in {x \in keys : \A y \in keys : PriceNotBelow(table, x, y)}}

\* ORDER BY display_order alone
MediaNotAfterByOrder(media, i, j) ==
    \/ IsNone(media[j].display_order)
    \/ /\ ~IsNone(media[i].display_order)
       /\ media[i].display_order[2] <= media[j].display_order[2]
\* ORDER BY is_primary DESC, display_order: primary rows first, then rising
\* display_order with NULLs last; ties are the server's choice
MediaNotAfter(media, i, j) ==
    \/ media[i].is_primary /\ ~media[j].is_primary
    \/ /\ media[i].is_primary = media[j].is_primary
       /\ \/ IsNone(media[j].display_order)
          \/ /\ ~IsNone(media[i].display_order)
             /\ media[i].display_order[2] <= media[j].display_order[2]

RECURSIVE MediaOrders(_, _)
MediaOrders(media, ids) ==
    IF ids = {} THEN {<<>>}
    ELSE UNION {{<<i>> \o rest : rest \in MediaOrders(media, ids \ {i})} :
                i \in {x \in ids : \A y \in ids : MediaNotAfter(media, x, y)}}

MediaIdsOf(media, key) ==
    {i \in 1..Len(media) : media[i].listing_key = S(key)}

\* the media slices the per-property query may give: ids, LIMIT 5
MediaSlices(media, key) ==
    {Prefix(o, MediaLimit) : o \in MediaOrders(media, MediaIdsOf(media, key))}

\* the key orders the main query may give: LIMIT 10
KeySlices(table, params) ==
    {Prefix(o, SearchLimit) : o \in PriceOrders(table, MatchingKeys(table, params))}

\* one returned property: the selected columns, photo_count and media
ResultRow(table, media, key, slice) ==
    [listing_key |-> key,
     city |-> table[key].city,
     list_price |-> table[key].list_price,
     bedrooms |-> table[key].bedrooms,
     bathrooms |-> table[key].bathrooms,
     photo_count |-> Cardinality(MediaIdsOf(media, key)),
     media |-> [i \in 1..Len(slice) |->
                  [id |-> slice[i], media_url |-> media[slice[i]].media_url,
                   is_primary |-> media[slice[i]].is_primary]]]

\* the lists search_properties may return when the query succeeds
RECURSIVE ResultLists(_, _, _)
ResultLists(table, media, keys) ==
    IF keys = <<>> THEN {<<>>}
    ELSE {<<ResultRow(table, media, Head(keys), slice)>> \o rest :
            slice \in MediaSlices(media, Head(keys)),
            rest \in ResultLists(table, media, Tail(keys))}

SearchResults(table, media, params) ==
    UNION {ResultLists(table, media, keys) : keys \in KeySlices(table, params)}

ResultKeys(rows) == {rows[i].listing_key : i \in 1..Len(rows)}

\* main's "Refresh cities table": TRUNCATE cities RESTART IDENTITY, INSERT ..
\* SELECT DISTINCT city .., commit.  Nothing guards the statements: without
\* the table, or when the store fails, the exception ends main.
refresh_cities(c, table, storageFails) ==
    IF ~c.exists \/ storageFails THEN [raised |-> TRUE, cities |-> c]
    ELSE [raised |-> FALSE,
          cities |-> [exists |-> TRUE, rows |-> CityRows(DistinctCities(table))]]

OldCity == <<"O", "l", "d">>
\* what the cities table may hold before the first run
InitialCities ==
    {[exists |-> FALSE, rows |-> <<>>],
     [exists |-> TRUE, rows |-> [n \in {OldCity, Toronto} |-> 2]]}

(***************************************************************************)
(* The API process: chatbot_postgres.PropertyChatbotDB behind main.py.     *)
(* Its one connection is opened in __init__ and never committed, rolled    *)
(* back or reopened.                                                       *)
(***************************************************************************)
\* search_properties: what a call may end in, [raised, rows, conn].  The
\* statements raise on a connection that is not ready, when the store is
\* not reachable (the connection is lost), and when the query is rejected
\* (the open transaction is left aborted).
search_propertiesSwallows(c, table, media, p, storeUp) ==
    IF c # "ready" THEN {[raised |-> FALSE, rows |-> <<>>, conn |-> c]}
    ELSE IF ~storeUp THEN {[raised |-> FALSE, rows |-> <<>>, conn |-> "closed"]}
    ELSE IF QueryFails(p) THEN {[raised |-> FALSE, rows |-> <<>>, conn |-> "aborted"]}
    ELSE {[raised |-> FALSE, rows |-> rows, conn |-> "ready"] :
            rows \in SearchResults(table, media, p)}
search_properties(c, table, media, p, storeUp) ==
    IF c # "ready" THEN {[raised |-> TRUE, rows |-> <<>>, conn |-> c]}
    ELSE IF ~storeUp THEN {[raised |-> TRUE, rows |-> <<>>, conn |-> "closed"]}
    ELSE IF QueryFails(p) THEN {[raised |-> TRUE, rows |-> <<>>, conn |-> "aborted"]}
    ELSE {[raised |-> FALSE, rows |-> rows, conn |-> "ready"] :
            rows \in SearchResults(table, media, p)}

\* format_response reads properties[:5]
PreviewProperties == 5

\* get_available_cities: [raised, cities, conn]; cities are the non-null
\* cities with their row counts (fewer than LIMIT 20 in every table here)
CityCount(table, city) ==
    Cardinality({k \in DOMAIN table : table[k].city = S(city)})
get_available_cities(c, table, storeUp) ==
    IF c # "ready" THEN [raised |-> TRUE, cities |-> {}, conn |-> c]
    ELSE IF ~storeUp THEN [raised |-> TRUE, cities |-> {}, conn |-> "closed"]
    ELSE [raised |-> FALSE,
          cities |-> {<<n, CityCount(table, n)>> : n \in DistinctCities(table)},
          conn |-> "ready"]

\* format_response: [raised, kind].  With no property the fixed text; with
\* the model's answer that answer; else the fallback, whose
\* f"${p['list_price']:,.0f}" raises on a NULL price among the first five
format_response(rows, llmFails) ==
    IF rows = <<>> THEN [raised |-> FALSE, kind |-> "no_match"]
    ELSE IF ~llmFails THEN [raised |-> FALSE, kind |-> "summary"]
    ELSE IF \E i \in 1..Min(Len(rows), PreviewProperties) : IsNone(rows[i].list_price)
         THEN [raised |-> TRUE, kind |-> "error"]
    ELSE [raised |-> FALSE, kind |-> "template"]

\* process_message: what a call may end in, [raised, success, kind,
\* properties, conn]
process_message(c, table, media, p, help, storeUp, llmFails) ==
    IF help
    THEN LET r == get_available_cities(c, table, storeUp)
         IN  {[raised |-> r.raised, success |-> ~r.raised, kind |-> "cities",
               properties |-> <<>>, conn |-> r.conn]}
    ELSE {LET f == format_response(s.rows, llmFails)
          IN  IF s.raised \/ f.raised
              THEN [raised |-> TRUE, success |-> FALSE, kind |-> "error",
                    properties |-> <<>>, conn |-> s.conn]
              ELSE [raised |-> FALSE, success |-> TRUE, kind |-> f.kind,
                    properties |-> s.rows, conn |-> s.conn] :
            s \in search_properties(c, table, media, p, storeUp)}

\* POST /api/v1/chat: the response, [status, success, properties, kind, conn]
chat(c, table, media, p, help, storeUp, llmFails) ==
    {IF r.raised
     THEN [status |-> 200, success |-> FALSE, kind |-> "error",
           properties |-> <<>>, conn |-> r.conn]
     ELSE [status |-> 200, success |-> r.success, kind |-> r.kind,
           properties |-> Prefix(r.properties, SearchLimit), conn |-> r.conn] :
       r \in process_message(c, table, media, p, help, storeUp, llmFails)}

\* POST /api/v1/search: the response; limit is the query parameter
search_endpoint(c, table, media, p, limit, storeUp) ==
    {IF r.raised
     THEN [status |-> 500, success |-> FALSE, kind |-> "error",
           properties |-> <<>>, conn |-> r.conn]
     ELSE [status |-> 200, success |-> TRUE, kind |-> "list",
           properties |-> Prefix(r.rows, limit), conn |-> r.conn] :
       r \in search_properties(c, table, media, p, storeUp)}

\* the predicate values of the requests
ParamNames == {"city", "min_price", "max_price", "bedrooms", "bathrooms"}
ParamValues(name) ==
    CASE name = "city" -> {S(<<>>), S(Toronto), S(<<"t", "O", "N">>)}
      [] name = "min_price" -> {I(0), I(925000)}
      [] name = "max_price" -> {I(0), I(1000000)}
      [] name = "bedrooms" -> {I(0), I(3), S(<<"a", "b", "c">>)}
      [] name = "bathrooms" -> {I(0), I(2)}

\* the predicate sets with at most MaxPredicates predicates given
ParamSets ==
    {q \in [ParamNames -> {None} \cup UNION {ParamValues(n) : n \in ParamNames}] :
       /\ \A n \in ParamNames : q[n] = None \/ q[n] \in ParamValues(n)
       /\ Cardinality({n \in ParamNames : q[n] # None}) <= MaxPredicates}

\* what FastAPI lets through to /api/v1/search: Optional[str], Optional[float],
\* Optional[int] values
TypedOk(q) ==
    /\ IsNone(q["city"]) \/ IsStr(q["city"])
    /\ \A n \in {"min_price", "max_price", "bedrooms", "bathrooms"} :
         IsNone(q[n]) \/ IsInt(q[n])

(***************************************************************************)
(* State.                                                                  *)
(***************************************************************************)
VARIABLES
    properties,      \* the committed rows of the properties table
    property_media,  \* the committed rows of property_media, in id order
    cities,          \* the cities table: [exists, rows]
    pc,              \* where fetch_to_postgres.main is: idle, fetch, insert,
                     \* media, refresh, done, crashed; call and returned
                     \* around a direct call of insert_properties; serving
                     \* for the API process of main.py
    skip,            \* fetch_all's loop variable
    props,           \* fetch_all's props: the page being processed
    insertOk,        \* history: insert_properties committed the current page
    emptyAt,         \* history: <<k>> once the page at offset k was empty in this run
    ingested,        \* history: the batches committed so far, as far as the
                     \* end-to-end scenario goes: none, first, second, other
    ev,              \* history: the operation the last step performed
    params,          \* the predicates the API's requests carry
    conn,            \* chatbot.conn, the API's one connection: ready,
                     \* aborted (a statement failed in the open transaction,
                     \* which nothing rolls back), closed (the store was lost)
    resp             \* the API's last response

pvars ==
    <<properties, property_media, cities, pc, skip, props, insertOk,
      emptyAt, ingested, ev>>
svars == <<params, conn, resp>>
vars == <<pvars, svars>>

NoOffset == <<>>
NoParams == <<>>
NoResp == [endpoint |-> "none"]

\* op: the operation; ok: it did not fail; note: what else the step did
Event(op, ok, note) == [op |-> op, ok |-> ok, note |-> note]

\* the database after setup_postgres_db.create_tables: properties and
\* property_media dropped and created empty; cities as it was
Init ==
    /\ properties = EmptyTable
    /\ property_media = <<>>
    /\ cities \in InitialCities
    /\ pc = "idle"
    /\ skip = 0
    /\ props = <<>>
    /\ insertOk = FALSE
    /\ emptyAt = NoOffset
    /\ ingested = "none"
    /\ ev = Event("create_tables", TRUE, "")
    /\ params = NoParams
    /\ conn = "ready"
    /\ resp = NoResp

\* the scenario's history after a committed batch
IngestedAfter(before, page) ==
    IF before = "none" /\ page = <<RawA1Full>> THEN "first"
    ELSE IF before = "first" /\ page = <<RawA1Price>> THEN "second"
    ELSE "other"

\* main: connect, then fetch_all(limit, fetch_media=True) starts its loop
StartRun ==
    /\ pc \in {"idle", "done", "crashed"}
    /\ pc' = "fetch"
    /\ skip' = 0
    /\ props' = <<>>
    /\ insertOk' = FALSE
    /\ emptyAt' = NoOffset
    /\ ev' = Event("connect", TRUE, "")
    /\ UNCHANGED <<properties, property_media, cities, ingested, svars>>

\* fetch_all: props = self.fetch_properties(top=100, skip=skip); if not props: break
FetchProperties ==
    /\ pc = "fetch"
    /\ \E reply \in ListingReplies :
         LET r == fetch_properties(reply)
             next == AfterFetch(r.value, skip)
         IN  /\ pc' = IF r.raised THEN "crashed" ELSE next.pc
             /\ skip' = IF r.raised THEN skip ELSE next.skip
             /\ props' = r.value
             /\ emptyAt' = IF ~r.raised /\ r.value = <<>> THEN <<skip>> ELSE emptyAt
             /\ ev' = Event("fetch_properties", ~r.raised, reply.kind)
    /\ insertOk' = FALSE
    /\ UNCHANGED <<properties, property_media, cities, ingested, svars>>

\* fetch_all: self.insert_properties(props), then the keys and the test
\* `if fetch_media and keys`
InsertProperties ==
    /\ pc = "insert"
    /\ \E storageFails \in BOOLEAN :
         LET r == insert_properties(properties, props, storageFails)
             next == AfterInsert(r.ok, props, skip)
         IN  /\ properties' = r.table
             /\ insertOk' = r.ok
             /\ ingested' = IF r.ok THEN IngestedAfter(ingested, props) ELSE ingested
             /\ pc' = next.pc
             /\ skip' = next.skip
             /\ ev' = Event("insert_properties", r.ok, IF storageFails THEN "store_failed" ELSE "")
    /\ UNCHANGED <<property_media, cities, props, emptyAt, svars>>

\* the replies to the media requests of fetch_media_for_properties, one per key
MediaReplyLists(keys) ==
    {f \in [1..Len(keys) -> UNION {MediaReplies(keys[i]) : i \in 1..Len(keys)}] :
       \A i \in 1..Len(keys) : f[i] \in MediaReplies(keys[i])}

\* fetch_all: self.fetch_media_for_properties(keys), one request per key,
\* then the next iteration of the loop; the event keeps media_records
FetchMedia ==
    /\ pc = "media"
    /\ \E replies \in MediaReplyLists(ListingKeys(props)), storageFails \in BOOLEAN :
         LET r == fetch_media_for_properties(properties, property_media, replies, storageFails)
             next == NextIteration(skip)
         IN  /\ Len(property_media) + Len(MediaRecords(replies)) <= MaxMediaRows
             /\ property_media' = r.media
             /\ pc' = next.pc
             /\ skip' = next.skip
             /\ ev' = Event("fetch_media", r.ok, IF r.inserted THEN "insert_media" ELSE "")
                        @@ [records |-> MediaRecords(replies)]
    /\ UNCHANGED <<properties, cities, props, insertOk, emptyAt, ingested, svars>>

\* main, after fetch_all returned: the cities refresh, then close
RefreshCities ==
    /\ pc = "refresh"
    /\ \E storageFails \in BOOLEAN :
         LET r == refresh_cities(cities, properties, storageFails)
         IN  /\ cities' = r.cities
             /\ pc' = IF r.raised THEN "crashed" ELSE "done"
             /\ ev' = Event("refresh_cities", ~r.raised, IF storageFails THEN "store_failed" ELSE "")
    /\ UNCHANGED <<properties, property_media, skip, props, insertOk, emptyAt, ingested, svars>>

Next ==
    \/ StartRun
    \/ FetchProperties
    \/ InsertProperties
    \/ FetchMedia
    \/ RefreshCities

Spec == Init /\ [][Next]_vars

(***************************************************************************)
(* insert_properties called on its own: any batch, on any table an earlier *)
(* batch left.                                                             *)
(***************************************************************************)
\* the tables one committed batch leaves
TablesOf(batches) ==
    {insert_properties(EmptyTable, b, FALSE).table : b \in batches}

UpsertInit ==
    /\ properties \in TablesOf(Batches)
    /\ property_media = <<>>
    /\ cities \in InitialCities
    /\ pc = "call"
    /\ skip = 0
    /\ props \in Batches
    /\ insertOk = FALSE
    /\ emptyAt = NoOffset
    /\ ingested = "other"
    /\ ev = Event("create_tables", TRUE, "")
    /\ params = NoParams
    /\ conn = "ready"
    /\ resp = NoResp

\* the batch holds a record older than the row stored under its key
Replays(table, batch) ==
    \E i \in 1..Len(batch) :
        LET t == PropertyTuple(batch[i])
        IN  /\ PropertyRowOk(t)
            /\ t.listing_key[2] \in DOMAIN table
            /\ ~IsNone(t.last_updated)
            /\ ~IsNone(table[t.listing_key[2]].last_updated)
            /\ t.last_updated[2] < table[t.listing_key[2]].last_updated[2]

\* ingested becomes "replayed" when a committed batch held such a record
Ingest ==
    /\ pc = "call"
    /\ \E storageFails \in BOOLEAN :
         LET r == insert_properties(properties, props, storageFails)
         IN  /\ properties' = r.table
             /\ insertOk' = r.ok
             /\ ingested' = IF r.ok /\ Replays(properties, props) THEN "replayed" ELSE ingested
             /\ ev' = Event("insert_properties", r.ok, IF storageFails THEN "store_failed" ELSE "")
    /\ pc' = "returned"
    /\ UNCHANGED <<property_media, cities, skip, props, emptyAt, svars>>

UpsertNext == Ingest

UpsertSpec == UpsertInit /\ [][UpsertNext]_vars

(***************************************************************************)
(* The API process serving requests over a store the sync left.  The       *)
(* requests of one behaviour carry one predicate set.                      *)
(***************************************************************************)
\* the prices of the catalog's listings are multiples of it
PriceStep == 50000
ServiceRecords == {RawA1Full, RawA1Price, RawA1Old, RawB2}

\* a catalog of two listings more than the search's LIMIT: every listing but
\* the last has a price (the first two the same one) and three bedrooms, the
\* last has neither
RawListed(i) ==
    IF i = SearchLimit + 2
    THEN [ListingKey |-> S(<<"L">> \o Digits(i)), City |-> S(Toronto)]
    ELSE [ListingKey |-> S(<<"L">> \o Digits(i)), City |-> S(Toronto),
          ListPrice |-> I(IF i = 1 THEN 2 * PriceStep ELSE i * PriceStep),
          BedroomsTotal |-> I(3)]
RawCatalog == [i \in 1..(SearchLimit + 2) |-> RawListed(i)]

ServiceTables ==
    {EmptyTable} \cup TablesOf(UNION {[1..n -> ServiceRecords] : n \in 1..2})
    \cup TablesOf({RawCatalog})

\* the media rows the sync may have stored with a table
ServiceMedia(table) ==
    {<<>>} \cup
    IF A1 \in DOMAIN table
    THEN {[i \in 1..2 |-> MediaRow(MediaTuple(
              <<MediaItemPlain(S(A1)), MediaItemPrimary(S(A1))>>[i]))],
          [i \in 1..Len(MediaItemsMany(S(A1))) |->
              MediaRow(MediaTuple(MediaItemsMany(S(A1))[i]))]}
    ELSE {}

\* the response, with the request's inputs beside it
Response(endpoint, r, help, limit, storeUp, connBefore) ==
    [endpoint |-> endpoint, status |-> r.status, success |-> r.success,
     kind |-> r.kind, properties |-> r.properties, help |-> help,
     limit |-> limit, storeUp |-> storeUp, connBefore |-> connBefore]

ServiceInit ==
    /\ properties \in ServiceTables
    /\ property_media \in ServiceMedia(properties)
    /\ cities \in InitialCities
    /\ pc = "serving"
    /\ skip = 0
    /\ props = <<>>
    /\ insertOk = FALSE
    /\ emptyAt = NoOffset
    /\ ingested = "other"
    /\ ev = Event("create_tables", TRUE, "")
    /\ params \in ParamSets
    /\ conn = "ready"
    /\ resp = NoResp

\* POST /api/v1/search with the predicates as query parameters
SearchRequest ==
    /\ pc = "serving"
    /\ TypedOk(params)
    /\ \E limit \in {SearchLimit, 1}, storeUp \in BOOLEAN :
         \E r \in search_endpoint(conn, properties, property_media, params, limit, storeUp) :
            /\ resp' = Response("search", r, FALSE, limit, storeUp, conn)
            /\ conn' = r.conn
    /\ UNCHANGED <<pvars, params>>

\* POST /api/v1/chat with a message from which extract_parameters gives the
\* predicates, or a message that asks for help or cities
ChatRequest ==
    /\ pc = "serving"
    /\ \E help \in BOOLEAN, storeUp \in BOOLEAN, llmFails \in BOOLEAN :
         \E r \in chat(conn, properties, property_media, params, help, storeUp, llmFails) :
            /\ resp' = Response("chat", r, help, SearchLimit, storeUp, conn)
            /\ conn' = r.conn
    /\ UNCHANGED <<pvars, params>>

\* predicate sets the server can read: none, a city, a number of bedrooms
NoPredicates == [n \in ParamNames |-> None]
FollowUpParams ==
    {NoPredicates, [NoPredicates EXCEPT !["city"] = S(Toronto)],
     [NoPredicates EXCEPT !["bedrooms"] = I(3)]}

\* after a request whose query was rejected, the next request carries
\* predicates the server can read
NextPredicates ==
    /\ pc = "serving"
    /\ conn = "aborted"
    /\ QueryFails(params)
    /\ params' \in FollowUpParams
    /\ resp' = NoResp
    /\ UNCHANGED <<pvars, conn>>

ServiceNext ==
    \/ SearchRequest
    \/ ChatRequest
    \/ NextPredicates

ServiceSpec == ServiceInit /\ [][ServiceNext]_vars

(***************************************************************************)
(* Properties of the sync pipeline.                                        *)
(***************************************************************************)
ScenarioQuery == [city |-> S(Toronto), min_price |-> I(925000)]
PriceOnlyQuery == [min_price |-> I(925000)]

\* C1, as stated: from an empty store, after ingesting the full A1 record
\* and then re-ingesting {A1, list_price 950000}, the store holds one row,
\* A1 with list_price 950000, and search({city Toronto, minPrice 925000})
\* returns that row.
C1_EndToEndAsStated ==
    ingested = "second" =>
        /\ DOMAIN properties = {A1}
        /\ properties[A1].list_price = I(950000)
        /\ \A rows \in SearchResults(properties, property_media, ScenarioQuery) :
             A1 \in ResultKeys(rows)

\* C1, amended: after the same two ingests the store holds one row, A1 with
\* list_price 950000 and with city and bedrooms NULL (the re-ingested record
\* overwrites every column), so search({city Toronto, minPrice 925000})
\* returns no row, and search({minPrice 925000}) returns that row.
C1_EndToEnd ==
    ingested = "second" =>
        /\ DOMAIN properties = {A1}
        /\ properties[A1].list_price = I(950000)
        /\ properties[A1].city = None
        /\ properties[A1].bedrooms = None
        /\ \A rows \in SearchResults(properties, property_media, ScenarioQuery) :
             rows = <<>>
        /\ \A rows \in SearchResults(properties, property_media, PriceOnlyQuery) :
             ResultKeys(rows) = {A1} /\ rows[1].list_price = I(950000)

C1_Witness == ingested = "second" /\ pc = "done"

\* C5: once a page of the run came back empty, no step of the run requests
\* listings, upserts or fetches media.
C5_PaginationTermination ==
    [][emptyAt # NoOffset =>
         ev'.op \notin {"fetch_properties", "insert_properties", "fetch_media"}]_vars

C5_Witness == emptyAt = <<PageSize>> /\ pc = "done" /\ properties # EmptyTable

\* C6, as stated: fetch_properties never raises; a transport failure gives
\* an empty page, and the run ends by the empty-page rule.
C6_FetchNeverRaises ==
    ev.op = "fetch_properties" =>
        /\ ev.ok
        /\ pc # "crashed"
        /\ props = <<>> => (pc = "refresh" /\ emptyAt = <<skip>>)

StoredKey(p) == PropertyTuple(p).listing_key[2]

C9_CitiesRebuilt ==
    (ev.op = "refresh_cities" /\ ev.note # "store_failed") =>
        /\ pc = "done"
        /\ cities.exists
        /\ cities.rows = CityRows(DistinctCities(properties))

(***************************************************************************)
(* Properties of insert_properties.                                        *)
(***************************************************************************)
\* the last record of the batch that is stored under the key of record i
LastWithKey(batch, i) ==
    CHOOSE j \in i..Len(batch) :
        /\ StoredKey(batch[j]) = StoredKey(batch[i])
        /\ \A m \in (j + 1)..Len(batch) : StoredKey(batch[m]) # StoredKey(batch[i])

\* C2: after insert_properties(B) succeeded, a second insert_properties(B)
\* succeeds and leaves the table as the first left it; the table holds a
\* row under the key of every record of B, with the columns of the last
\* record of B that has the key.
C2_UpsertIdempotence ==
    (pc = "returned" /\ ev.ok) =>
        LET again == insert_properties(properties, props, FALSE)
        IN  /\ again.ok
            /\ again.table = properties
            /\ \A i \in 1..Len(props) :
                 /\ StoredKey(props[i]) \in DOMAIN properties
                 /\ properties[StoredKey(props[i])]
                      = UpsertedColumns(PropertyTuple(props[LastWithKey(props, i)]))

\* a committed batch whose two keys are cut to the same stored key, on a
\* table that already held rows
C2_Witness ==
    /\ pc = "returned"
    /\ ev.ok
    /\ props = <<RawLongX, RawLongY>>
    /\ A1 \in DOMAIN properties
    /\ Cardinality(DOMAIN properties) = 2

(***************************************************************************)
(* Properties of the search path.                                          *)
(***************************************************************************)
\* needle occurs in hay
IsSubstring(needle, hay) ==
    \E i \in 0..(Len(hay) - Len(needle)) : SubSeq(hay, i + 1, i + Len(needle)) = needle

\* the predicates a request gives: those with a value
Given(q, name) == ~IsNone(Get(q, name))

\* the row satisfies the given predicate `name`, read as the specification
\* reads it: city a case-insensitive substring, bedrooms and bathrooms
\* equal, min_price and max_price inclusive bounds
Satisfies(row, q, name) ==
    CASE name = "city" ->
           ~IsNone(row.city) /\ IsSubstring(Lower(Str(q[name])), Lower(row.city[2]))
      [] name = "min_price" ->
           ~IsNone(row.list_price) /\ row.list_price[2] >= q[name][2]
      [] name = "max_price" ->
           ~IsNone(row.list_price) /\ row.list_price[2] <= q[name][2]
      [] name = "bedrooms" -> row.bedrooms = q[name]
      [] name = "bathrooms" -> row.bathrooms = q[name]

\* an answer of /api/v1/search with the default limit: the list is what
\* search_properties returned
SearchAnswered ==
    /\ resp.endpoint = "search"
    /\ resp.status = 200
    /\ resp.limit = SearchLimit

\* C3, as stated: search_properties(P) returns exactly the rows of the
\* table that satisfy every predicate given in P.
C3_PredicateConjunction ==
    SearchAnswered =>
        ResultKeys(resp.properties)
          = {k \in DOMAIN properties :
               \A n \in ParamNames : Given(params, n) => Satisfies(properties[k], params, n)}

\* C4, as stated: a numeric predicate given as 0 still restricts the
\* result: every returned row satisfies it.
C4_ZeroIsSupplied ==
    SearchAnswered =>
        \A n \in {"bedrooms", "bathrooms", "min_price", "max_price"} :
            params[n] = I(0) =>
                \A i \in 1..Len(resp.properties) : Satisfies(resp.properties[i], params, n)

\* the query of the request cannot be executed: the connection is not
\* ready, the store is not reachable, or a predicate cannot be read as a number
QueryCannotRun ==
    /\ resp.endpoint \in {"search", "chat"}
    /\ \/ resp.connBefore # "ready"
       \/ ~resp.storeUp
       \/ ~resp.help /\ QueryFails(params)

\* C10: a request whose query cannot be executed gets an explicit failure:
\* status 500 from /api/v1/search, success = false from /api/v1/chat, and
\* never a successful response.
C10_QueryErrorsExplicit ==
    QueryCannotRun =>
        /\ resp.endpoint = "search" => resp.status = 500
        /\ resp.endpoint = "chat" => ~resp.success
        /\ ~resp.success
        /\ resp.kind = "error"

\* a malformed predicate reached the query through /api/v1/chat
C10_Witness ==
    /\ resp.endpoint = "chat"
    /\ ~resp.help
    /\ resp.connBefore = "ready"
    /\ resp.storeUp
    /\ QueryFails(params)
    /\ ~resp.success
    /\ properties # EmptyTable

\* the search returned a list: through /api/v1/search, or through
\* /api/v1/chat when the message is not a request for help
SearchReturned ==
    /\ resp.endpoint \in {"search", "chat"}
    /\ resp.success
    /\ ~resp.help

\* the stored rows of a returned media slice, in the slice's order
SliceRows(slice) == [i \in 1..Len(slice) |-> property_media[slice[i].id]]

\* C11: the media slice of every returned listing has at most 5 rows; no
\* non-primary row comes before a primary row; among rows with the same
\* flag the display_order rises, rows without display_order last; and when
\* the listing has a primary row stored, the first row of the slice is primary.
C11_MediaOrdering ==
    SearchReturned =>
        \A n \in 1..Len(resp.properties) :
            LET rows == SliceRows(resp.properties[n].media)
                stored == MediaIdsOf(property_media, resp.properties[n].listing_key)
            IN  /\ Len(rows) <= MediaLimit
                /\ Len(rows) = Min(Cardinality(stored), MediaLimit)
                /\ \A i, j \in 1..Len(rows) :
                      i < j =>
                        /\ rows[j].is_primary => rows[i].is_primary
                        /\ (rows[i].is_primary = rows[j].is_primary
                             /\ ~IsNone(rows[j].display_order)) =>
                               /\ ~IsNone(rows[i].display_order)
                               /\ rows[i].display_order[2] <= rows[j].display_order[2]
                /\ (\E i \in stored : property_media[i].is_primary) =>
                      rows[1].is_primary

\* a listing with six stored media rows, the first of them not primary,
\* came back with five, a primary one first
C11_Witness ==
    /\ resp.endpoint = "search"
    /\ resp.status = 200
    /\ Len(property_media) > MediaLimit
    /\ ~property_media[1].is_primary
    /\ \E n \in 1..Len(resp.properties) :
          /\ Len(resp.properties[n].media) = MediaLimit
          /\ resp.properties[n].media[1].is_primary

\* a is a price above b; a listing without a price is above none, and every
\* listing with a price is above it
PriceAbove(a, b) == ~IsNone(a) /\ (IsNone(b) \/ a[2] > b[2])

\* C12, as stated: the search returns at most 10 listings, no listing
\* before one with a price above its own, and no matching listing that was
\* left out has a price above that of a returned one.
C12_OrderAndCap ==
    SearchAnswered =>
        LET rows == resp.properties
            left == MatchingKeys(properties, params) \ ResultKeys(rows)
        IN  /\ Len(rows) <= SearchLimit
            /\ \A i, j \in 1..Len(rows) :
                  (i < j /\ ~IsNone(rows[i].list_price)) =>
                      ~PriceAbove(rows[j].list_price, rows[i].list_price)
            /\ \A k \in left : \A i \in 1..Len(rows) :
                  ~PriceAbove(properties[k].list_price, rows[i].list_price)

\* the value of a raw record's field as the row stores it: NULL when the
\* record does not have the field
StoredField(p, column) == UpsertedColumns(PropertyTuple(p))[column]

\* C13: a call of insert_properties that commits leaves, under the key of
\* every record of the batch, the values of the last record with that key
\* (NULL for a field the record does not have), whatever the row and its
\* last_updated were before, and leaves every other row as it was.
C13_LastWriteWins ==
    [][(pc = "call" /\ ev'.ok) =>
         /\ \A i \in 1..Len(props) :
               LET p == props[LastWithKey(props, i)]
                   row == properties'[StoredKey(props[i])]
               IN  /\ \A c \in DOMAIN row : row[c] = StoredField(p, c)
                   /\ "City" \notin DOMAIN p => IsNone(row.city)
                   /\ "ModificationTimestamp" \notin DOMAIN p => IsNone(row.last_updated)
         /\ \A k \in DOMAIN properties :
               (\A i \in 1..Len(props) : StoredKey(props[i]) # k) =>
                   (k \in DOMAIN properties' /\ properties'[k] = properties[k])]_vars

\* the older A1 record was committed over a row with a later last_updated
C13_Witness ==
    /\ pc = "returned"
    /\ ev.ok
    /\ ingested = "replayed"
    /\ props = <<RawA1Old>>
    /\ properties[A1].last_updated = I(1)
    /\ properties[A1].list_price = I(0)

\* the search of a chat request ran: the message was not a request for
\* help, and the query could be executed
ChatSearched ==
    /\ resp.endpoint = "chat"
    /\ ~resp.help
    /\ resp.connBefore = "ready"
    /\ resp.storeUp
    /\ ~QueryFails(params)

\* C15, as stated: format_response never raises, so a chat request whose
\* search ran is answered with the model's text, the templated enumeration
\* or, for no result, the fixed text, whatever the prices of the results.
C15_FallbackTotal ==
    ChatSearched =>
        /\ resp.success
        /\ resp.kind \in {"no_match", "summary", "template"}

\* C16, as stated: a search with valid predicates that follows a search
\* rejected by the server, on the same PropertyChatbotDB, succeeds and
\* returns what it returns on a fresh connection.
C16_FailedSearchIsolated ==
    (/\ resp.endpoint = "search"
     /\ resp.connBefore = "aborted"
     /\ resp.storeUp
     /\ ~QueryFails(params)) =>
        /\ resp.status = 200
        /\ resp.properties \in
              {Prefix(rows, resp.limit) :
                 rows \in SearchResults(properties, property_media, params)}

(***************************************************************************)
(* Properties of the media rows.                                           *)
(***************************************************************************)
\* C14: a call of insert_media that commits appends one row per record it
\* was given, in order, also when the same row is stored already; and no
\* step of the pipeline changes or removes a stored media row.
C14_MediaAppendOnly ==
    [][/\ Len(property_media') >= Len(property_media)
       /\ SubSeq(property_media', 1, Len(property_media)) = property_media
       /\ (ev'.op = "fetch_media" /\ ev'.note = "insert_media" /\ ev'.ok) =>
             property_media' =
                 property_media \o [i \in 1..Len(ev'.records) |-> MediaRow(ev'.records[i])]
       /\ ~(ev'.op = "fetch_media" /\ ev'.note = "insert_media" /\ ev'.ok) =>
             property_media' = property_media]_vars

\* the first page of a later run, the same one-record page with the same
\* media reply: the listing row is as the first run left it, and the media
\* row is stored twice
C14_Witness ==
    /\ ev.op = "fetch_media"
    /\ ev.ok
    /\ Len(ev.records) = 1
    /\ pc = "fetch"
    /\ skip = PageSize
    /\ props = <<RawA1Full>>
    /\ properties = insert_properties(EmptyTable, <<RawA1Full>>, FALSE).table
    /\ Len(property_media) = 2
    /\ property_media[1] = property_media[2]

\* C17, as stated: after insert_properties rolled a page back, the page's
\* step issues no media request and commits no media row.
C17_NoMediaAfterFailedUpsert ==
    [][(pc = "media" /\ ~insertOk) =>
         /\ ev'.op # "fetch_media"
         /\ property_media' = property_media]_vars

=============================================================================
